---------------------------- MODULE Spec2Model ----------------------------
(***************************************************************************)
(* A model of scanfnt.py: a carver that scans a binary file for embedded   *)
(* sfnt (TrueType / OpenType) fonts and copies each one out.                *)
(*                                                                         *)
(* The program is one sequential script.  The model follows its three      *)
(* loops: the chunked signature scan (lines 117-145), the validation of    *)
(* every candidate offset with the decoding of its name table (lines       *)
(* 150-215) and the extraction of the planned targets (lines 220-224).     *)
(* A byte is a number in 0..255, a file is a sequence of bytes, a text     *)
(* string is a sequence of code points.  An uncaught Python exception ends *)
(* the run: pc = "error" and err names the exception.                      *)
(***************************************************************************)
EXTENDS Integers, Sequences, FiniteSets, TLC

VARIABLES
  file,           \* the bytes of the scanned file (fileinfo.size = Len(file))
  BUF_SIZE,       \* line 17, the chunk size
  SAVE_INVALID,   \* line 16, the save-unidentified policy
  pc,             \* position of the script: scan, candidates, records, names,
                  \*   extract, done, error
  err,            \* the exception that ended the run, "" when none
  fp,             \* position of the file object fp
  buf,            \* the scan buffer, BUF_SIZE + BUF_PAD bytes
  chunk,          \* number of chunks scanned so far
  chunk_offset,   \* absolute offset of buf[0]
  offsets,        \* the candidate offsets, in the order found
  n,              \* number of candidates handled so far
  base_offset,    \* the candidate being validated
  sfnt,           \* its header
  i,              \* index of the table record being read
  record,         \* the table record read last
  total_length,   \* max of record.offset + record.length so far
  has_name, has_subfamily, filename,
  p0,             \* cursor saved before the name-table digression
  name_record_header,
  name_idx,       \* number of name records read so far
  to_save,        \* the planned targets
  saved,          \* number of targets extracted so far
  exports         \* the files written, in order: [filename, data]

vars == <<file, BUF_SIZE, SAVE_INVALID, pc, err, fp, buf, chunk, chunk_offset,
          offsets, n, base_offset, sfnt, i, record, total_length, has_name,
          has_subfamily, filename, p0, name_record_header, name_idx, to_save,
          saved, exports>>

(***************************************************************************)
(* Constants of the program.                                               *)
(***************************************************************************)
BUF_PAD == 4

SIG_ttf_0100 == <<0, 1, 0, 0>>
SIG_ttf_true == <<116, 114, 117, 101>>
SIG_ttf_typ1 == <<116, 121, 112, 49>>
SIG_otf_otto == <<79, 84, 84, 79>>
SIG_otf_tccf == <<116, 99, 99, 102>>

CarveSignatures == {SIG_ttf_0100, SIG_ttf_true, SIG_ttf_typ1, SIG_otf_otto}

TAG_name == <<110, 97, 109, 101>>

\* struct.calcsize of the four layouts of struct_fmt
SIZE_otf_descriptor == 12
SIZE_table_record == 16
SIZE_name_header == 6
SIZE_name_record == 12

\* block size of the fallback hash
SHA_BLOCK == 1024

(***************************************************************************)
(* Helpers.                                                                *)
(***************************************************************************)
Min(a, b) == IF a < b THEN a ELSE b
Max(a, b) == IF a > b THEN a ELSE b

\* fp.read(size) at position pos: the bytes that exist, fewer at the end
Read(pos, size) ==
  IF pos >= Len(file) \/ size <= 0 THEN <<>>
  ELSE SubSeq(file, pos + 1, Min(pos + size, Len(file)))

\* a big-endian unsigned number (struct's '!H' and '!I')
RECURSIVE BigEndian(_)
BigEndian(bytes) ==
  IF bytes = <<>> THEN 0
  ELSE 256 * BigEndian(SubSeq(bytes, 1, Len(bytes) - 1)) + bytes[Len(bytes)]

\* struct.unpack('!4sHHHH', b)
Unpack_otf_descriptor(b) ==
  [sfntVersion   |-> SubSeq(b, 1, 4),
   numTables     |-> BigEndian(SubSeq(b, 5, 6)),
   searchRange   |-> BigEndian(SubSeq(b, 7, 8)),
   entrySelector |-> BigEndian(SubSeq(b, 9, 10)),
   rangeShift    |-> BigEndian(SubSeq(b, 11, 12))]

\* struct.unpack('!4sIII', b)
Unpack_table_record(b) ==
  [tag      |-> SubSeq(b, 1, 4),
   checksum |-> BigEndian(SubSeq(b, 5, 8)),
   offset   |-> BigEndian(SubSeq(b, 9, 12)),
   length   |-> BigEndian(SubSeq(b, 13, 16))]

\* struct.unpack('!HHH', b)
Unpack_name_header(b) ==
  [version       |-> BigEndian(SubSeq(b, 1, 2)),
   count         |-> BigEndian(SubSeq(b, 3, 4)),
   storageOffset |-> BigEndian(SubSeq(b, 5, 6))]

\* struct.unpack('!HHHHHH', b)
Unpack_name_record(b) ==
  [platformId |-> BigEndian(SubSeq(b, 1, 2)),
   encodingId |-> BigEndian(SubSeq(b, 3, 4)),
   languageId |-> BigEndian(SubSeq(b, 5, 6)),
   nameId     |-> BigEndian(SubSeq(b, 7, 8)),
   length     |-> BigEndian(SubSeq(b, 9, 10)),
   offset     |-> BigEndian(SubSeq(b, 11, 12))]

NoSfnt == Unpack_otf_descriptor(<<0, 0, 0, 0, 0, 0, 0, 0, 0, 0, 0, 0>>)
NoRecord == Unpack_table_record(<<0, 0, 0, 0, 0, 0, 0, 0, 0, 0, 0, 0, 0, 0, 0, 0>>)
NoNameHeader == Unpack_name_header(<<0, 0, 0, 0, 0, 0>>)

(***************************************************************************)
(* The scan loop, lines 112-145.                                           *)
(***************************************************************************)
\* lines 112-115
ChunkNums ==
  Max(1, (Len(file) \div BUF_SIZE) + (IF Len(file) % BUF_SIZE # 0 THEN 1 ELSE 0))

\* lines 124-125: the pad is refilled from buf[BUF_PAD .. 2*BUF_PAD-1]
PadSource(j) == BUF_PAD + j

\* lines 124-132: the buffer after the pad copy, the read and the zero fill,
\* as a function of the 0-based index
FillBuffer(old, data) ==
  LET k == Len(data)
      last == IF k > 0 THEN k - 1 ELSE BUF_PAD - 1   \* i when the for loop ends
      padded == [x \in 0..(BUF_SIZE + BUF_PAD - 1) |->
                   IF x < BUF_PAD THEN old[PadSource(x) + 1] ELSE old[x + 1]]
      filled == [x \in 0..(BUF_SIZE + BUF_PAD - 1) |->
                   IF x >= BUF_PAD /\ x < BUF_PAD + k
                   THEN data[x - BUF_PAD + 1] ELSE padded[x]]
  IN [x \in 1..(BUF_SIZE + BUF_PAD) |->
        IF k < BUF_SIZE /\ (x - 1) >= BUF_PAD + last THEN 0 ELSE filled[x - 1]]

\* lines 134-142: the window starts of buf that hold a carve signature, in
\* the order of the loop, each as the absolute offset chunk_offset + i
Matches(b) ==
  LET starts == [j \in 1..BUF_SIZE |-> j - 1]
      hits == SelectSeq(starts, LAMBDA x : SubSeq(b, x + 1, x + 4) \in CarveSignatures)
  IN [j \in 1..Len(hits) |-> chunk_offset + hits[j]]

Abort(kind) ==
  /\ pc' = "error"
  /\ err' = kind

ScanChunk ==
  /\ pc = "scan"
  /\ IF BUF_SIZE < BUF_PAD
     THEN \* line 125 reads buf[BUF_PAD+i] past the end of buf
          /\ Abort("IndexError")
          /\ UNCHANGED <<fp, buf, chunk, chunk_offset, offsets>>
     ELSE LET data == Read(fp, BUF_SIZE)
              b == FillBuffer(buf, data)
          IN /\ buf' = b
             /\ fp' = fp + Len(data)
             /\ offsets' = offsets \o Matches(b)
             /\ chunk_offset' = chunk_offset + BUF_SIZE
             /\ chunk' = chunk + 1
             /\ pc' = IF chunk + 1 = ChunkNums THEN "candidates" ELSE "scan"
             /\ err' = err
  /\ UNCHANGED <<file, BUF_SIZE, SAVE_INVALID, n, base_offset, sfnt, i, record,
                 total_length, has_name, has_subfamily, filename, p0,
                 name_record_header, name_idx, to_save, saved, exports>>


(***************************************************************************)
(* Text: UTF-8 decoding (line 187), the fallback digest (lines 204-210)    *)
(* and the sanitizing of a filename (lines 34 and 214).                    *)
(***************************************************************************)
IsCont(b) == b >= 128 /\ b <= 191

\* number of bytes of the UTF-8 sequence that starts s, 0 when s starts
\* with no valid sequence (bytes.decode('utf8') raises UnicodeDecodeError)
Utf8SeqLen(s) ==
  LET b == s[1]
      c(j) == Len(s) >= j /\ IsCont(s[j])
  IN IF b < 128 THEN 1
     ELSE IF b >= 194 /\ b <= 223 THEN (IF c(2) THEN 2 ELSE 0)
     ELSE IF b = 224 THEN (IF c(2) /\ s[2] >= 160 /\ c(3) THEN 3 ELSE 0)
     ELSE IF b = 237 THEN (IF c(2) /\ s[2] <= 159 /\ c(3) THEN 3 ELSE 0)
     ELSE IF b >= 225 /\ b <= 239 THEN (IF c(2) /\ c(3) THEN 3 ELSE 0)
     ELSE IF b = 240 THEN (IF c(2) /\ s[2] >= 144 /\ c(3) /\ c(4) THEN 4 ELSE 0)
     ELSE IF b = 244 THEN (IF c(2) /\ s[2] <= 143 /\ c(3) /\ c(4) THEN 4 ELSE 0)
     ELSE IF b >= 241 /\ b <= 243 THEN (IF c(2) /\ c(3) /\ c(4) THEN 4 ELSE 0)
     ELSE 0

RECURSIVE Utf8Valid(_)
Utf8Valid(s) ==
  IF s = <<>> THEN TRUE
  ELSE LET k == Utf8SeqLen(s)
       IN k > 0 /\ Utf8Valid(SubSeq(s, k + 1, Len(s)))

\* the code point of one valid UTF-8 sequence
CodePoint(q) ==
  IF Len(q) = 1 THEN q[1]
  ELSE IF Len(q) = 2 THEN (q[1] - 192) * 64 + (q[2] - 128)
  ELSE IF Len(q) = 3 THEN (q[1] - 224) * 4096 + (q[2] - 128) * 64 + (q[3] - 128)
  ELSE (q[1] - 240) * 262144 + (q[2] - 128) * 4096 + (q[3] - 128) * 64 + (q[4] - 128)

\* bytes.decode('utf8') of a valid byte string: its code points
RECURSIVE Utf8Decode(_)
Utf8Decode(s) ==
  IF s = <<>> THEN <<>>
  ELSE LET k == Utf8SeqLen(s)
       IN <<CodePoint(SubSeq(s, 1, k))>> \o Utf8Decode(SubSeq(s, k + 1, Len(s)))

HexDigit(d) == IF d < 10 THEN 48 + d ELSE 87 + d

\* sha1(data).hexdigest(), with SHA-1 taken as injective: the digest is
\* modelled by the hexadecimal writing of the hashed bytes themselves, so
\* two digests are equal exactly when the hashed bytes are
HexDigest(data) ==
  [j \in 1..(2 * Len(data)) |->
     IF j % 2 = 1 THEN HexDigit(data[(j + 1) \div 2] \div 16)
     ELSE HexDigit(data[j \div 2] % 16)]

\* lines 207-208: the bytes fed to the hash, total_length // 1024 reads of
\* 1024 bytes starting at base
HashedBytes(base, total) == Read(base, SHA_BLOCK * (total \div SHA_BLOCK))

\* line 34: the characters of the class [<>:"/\|?*\x00]; in the class the
\* two characters \| are an escaped |
InvalidPathChars == {60, 62, 58, 34, 47, 124, 63, 42, 0}

\* line 214
Sanitize(name) == SelectSeq(name, LAMBDA ch : ch \notin InvalidPathChars)

STR_sep == <<32, 45, 32>>         \* ' - '
EXT_ttf == <<46, 116, 116, 102>>  \* '.ttf'
EXT_otf == <<46, 111, 116, 102>>  \* '.otf'

\* line 212
Extension(version) ==
  IF version \in {SIG_ttf_true, SIG_ttf_typ1, SIG_ttf_0100} THEN EXT_ttf ELSE EXT_otf

(***************************************************************************)
(* The candidate loop, lines 150-215.                                      *)
(***************************************************************************)
\* HeaderOk without the guard of line 162
HeaderOk_NoSearchRangeGuard(h) ==
  /\ ~(h.numTables = 0)
  /\ ~(h.rangeShift = 0)
  /\ ~(h.numTables * 16 - h.searchRange # h.rangeShift)

\* lines 160-163: the four guards, each a 'continue'
HeaderOk(h) ==
  /\ ~(h.numTables = 0)
  /\ ~(h.rangeShift = 0)
  /\ ~(h.searchRange = 0)
  /\ ~(h.numTables * 16 - h.searchRange # h.rangeShift)

\* lines 151-165: the next candidate and the checks of its header
NextCandidate ==
  /\ pc = "candidates"
  /\ n < Len(offsets)
  /\ LET base == offsets[n + 1]
     IN /\ base_offset' = base
        /\ has_name' = FALSE
        /\ has_subfamily' = FALSE
        /\ filename' = <<>>
        /\ total_length' = 0
        /\ IF base + SIZE_otf_descriptor > Len(file)
           THEN /\ n' = n + 1
                /\ UNCHANGED <<pc, err, fp, sfnt, i>>
           ELSE IF base < 0
           THEN \* fp.seek of a negative position
                /\ Abort("OSError")
                /\ UNCHANGED <<fp, sfnt, i, n>>
           ELSE LET h == Unpack_otf_descriptor(Read(base, SIZE_otf_descriptor))
                IN /\ sfnt' = h
                   /\ fp' = base + SIZE_otf_descriptor
                   /\ err' = err
                   /\ IF HeaderOk(h)
                      THEN pc' = "records" /\ i' = 0 /\ n' = n
                      ELSE pc' = pc /\ i' = i /\ n' = n + 1
  /\ UNCHANGED <<file, BUF_SIZE, SAVE_INVALID, buf, chunk, chunk_offset, offsets,
                 record, p0, name_record_header, name_idx, to_save, saved, exports>>

\* line 173
SpanEnd(r) == r.offset + r.length

\* lines 167-179: one table record; for the 'name' record also the seek to
\* the name table and the read of its header
ReadRecord ==
  /\ pc = "records"
  /\ i < sfnt.numTables
  /\ LET b == Read(fp, SIZE_table_record)
     IN IF Len(b) < SIZE_table_record
        THEN /\ Abort("struct.error")
             /\ fp' = fp + Len(b)
             /\ UNCHANGED <<record, total_length, p0, name_record_header, name_idx, i>>
        ELSE LET r == Unpack_table_record(b)
                 hb == Read(base_offset + r.offset, SIZE_name_header)
             IN /\ record' = r
                /\ total_length' = Max(total_length, SpanEnd(r))
                /\ IF r.tag # TAG_name
                   THEN /\ fp' = fp + SIZE_table_record
                        /\ i' = i + 1
                        /\ UNCHANGED <<pc, err, p0, name_record_header, name_idx>>
                   ELSE /\ p0' = fp + SIZE_table_record
                        /\ fp' = base_offset + r.offset + Len(hb)
                        /\ i' = i
                        /\ IF Len(hb) < SIZE_name_header
                           THEN /\ Abort("struct.error")
                                /\ UNCHANGED <<name_record_header, name_idx>>
                           ELSE /\ name_record_header' = Unpack_name_header(hb)
                                /\ name_idx' = 0
                                /\ pc' = "names"
                                /\ err' = err
  /\ UNCHANGED <<file, BUF_SIZE, SAVE_INVALID, buf, chunk, chunk_offset, offsets,
                 n, base_offset, sfnt, has_name, has_subfamily, filename,
                 to_save, saved, exports>>

\* line 198: fp.seek(p1)
AfterNameString(p1, at) == p1

\* lines 192-194
TakesFamily(nr) == ~has_name /\ nr.nameId = 1

\* lines 195-197, evaluated after lines 192-194
TakesSubfamily(nr) ==
  (has_name \/ TakesFamily(nr)) /\ ~has_subfamily /\ nr.nameId = 2

\* lines 181-198: one name record and its string
ReadNameRecord ==
  /\ pc = "names"
  /\ name_idx < name_record_header.count
  /\ LET b == Read(fp, SIZE_name_record)
         nr == Unpack_name_record(b)
         p1 == fp + SIZE_name_record
         at == base_offset + record.offset
                 + name_record_header.storageOffset + nr.offset
         name_bytes == Read(at, nr.length)
     IN IF Len(b) < SIZE_name_record
        THEN /\ Abort("struct.error")
             /\ fp' = fp + Len(b)
             /\ UNCHANGED <<has_name, has_subfamily, filename, name_idx>>
        ELSE IF Len(name_bytes) < nr.length
        THEN /\ Abort("struct.error")
             /\ fp' = at + Len(name_bytes)
             /\ UNCHANGED <<has_name, has_subfamily, filename, name_idx>>
        ELSE IF ~Utf8Valid(name_bytes)
        THEN /\ Abort("UnicodeDecodeError")
             /\ fp' = at + Len(name_bytes)
             /\ UNCHANGED <<has_name, has_subfamily, filename, name_idx>>
        ELSE LET name_string == Utf8Decode(name_bytes)
             IN /\ has_name' = (has_name \/ TakesFamily(nr))
                /\ has_subfamily' = (has_subfamily \/ TakesSubfamily(nr))
                /\ filename' = IF TakesFamily(nr) THEN name_string
                               ELSE IF TakesSubfamily(nr)
                                    THEN filename \o STR_sep \o name_string
                                    ELSE filename
                /\ fp' = AfterNameString(p1, at + Len(name_bytes))
                /\ name_idx' = name_idx + 1
                /\ UNCHANGED <<pc, err>>
  /\ UNCHANGED <<file, BUF_SIZE, SAVE_INVALID, buf, chunk, chunk_offset, offsets,
                 n, base_offset, sfnt, i, record, total_length, p0,
                 name_record_header, to_save, saved, exports>>

\* AfterNameTable without the seek of line 199
AfterNameTable_NoSeek(saved_p0, at) == at

\* line 199: fp.seek(p0)
AfterNameTable(saved_p0, at) == saved_p0

\* line 199 and the end of the iteration of the record loop
EndNameTable ==
  /\ pc = "names"
  /\ name_idx >= name_record_header.count
  /\ fp' = AfterNameTable(p0, fp)
  /\ i' = i + 1
  /\ pc' = "records"
  /\ UNCHANGED <<file, BUF_SIZE, SAVE_INVALID, err, buf, chunk, chunk_offset,
                 offsets, n, base_offset, sfnt, record, total_length, has_name,
                 has_subfamily, filename, p0, name_record_header, name_idx,
                 to_save, saved, exports>>

\* lines 203-210: the name of a target
TargetStem ==
  IF has_name THEN filename ELSE HexDigest(HashedBytes(base_offset, total_length))

\* lines 202-215: the decision for a candidate whose records are all read
PlanTarget ==
  /\ pc = "records"
  /\ i >= sfnt.numTables
  /\ IF ~has_name /\ ~SAVE_INVALID
     THEN UNCHANGED <<filename, to_save>>
     ELSE /\ filename' = Sanitize(TargetStem \o Extension(sfnt.sfntVersion))
          /\ to_save' = Append(to_save, [filename |-> filename',
                                         offset   |-> base_offset,
                                         length   |-> total_length])
  /\ n' = n + 1
  /\ pc' = "candidates"
  /\ UNCHANGED <<file, BUF_SIZE, SAVE_INVALID, err, fp, buf, chunk, chunk_offset,
                 offsets, base_offset, sfnt, i, record, total_length, has_name,
                 has_subfamily, p0, name_record_header, name_idx, saved, exports>>

\* line 151 when the offsets are exhausted, lines 217-218
CandidatesDone ==
  /\ pc = "candidates"
  /\ n >= Len(offsets)
  /\ pc' = IF to_save = <<>> THEN "done" ELSE "extract"
  /\ UNCHANGED <<file, BUF_SIZE, SAVE_INVALID, err, fp, buf, chunk, chunk_offset,
                 offsets, n, base_offset, sfnt, i, record, total_length, has_name,
                 has_subfamily, filename, p0, name_record_header, name_idx,
                 to_save, saved, exports>>

(***************************************************************************)
(* The extraction loop, lines 220-224.                                     *)
(***************************************************************************)
\* line 224: fp.read(info.length) after fp.seek(info.offset)
ExtractedBytes(info) == Read(info.offset, info.length)

Extract ==
  /\ pc = "extract"
  /\ saved < Len(to_save)
  /\ LET info == to_save[saved + 1]
         data == ExtractedBytes(info)
     IN /\ exports' = Append(exports, [filename |-> info.filename, data |-> data])
        /\ fp' = info.offset + Len(data)
  /\ saved' = saved + 1
  /\ pc' = IF saved + 1 = Len(to_save) THEN "done" ELSE "extract"
  /\ UNCHANGED <<file, BUF_SIZE, SAVE_INVALID, err, buf, chunk, chunk_offset,
                 offsets, n, base_offset, sfnt, i, record, total_length, has_name,
                 has_subfamily, filename, p0, name_record_header, name_idx, to_save>>

Next ==
  \/ ScanChunk
  \/ NextCandidate
  \/ ReadRecord
  \/ ReadNameRecord
  \/ EndNameTable
  \/ PlanTarget
  \/ CandidatesDone
  \/ Extract

(***************************************************************************)
(* The inputs: the files the model runs the program on.  struct.pack is    *)
(* the inverse of the layouts above.                                       *)
(***************************************************************************)
MaxStreamLen == 6     \* longest raw stream of the scan family
MaxNameRecs == 3      \* most name records of a generated name table
BigBuf == 128         \* a chunk size larger than most modelled files

U16(v) == <<(v \div 256) % 256, v % 256>>
U32(v) == U16(v \div 65536) \o U16(v % 65536)

Pack_otf_descriptor(ver, nT, sR, eS, rS) ==
  ver \o U16(nT) \o U16(sR) \o U16(eS) \o U16(rS)
Pack_table_record(tag, sum, off, len) ==
  tag \o U32(sum) \o U32(off) \o U32(len)
Pack_name_header(ver, count, storage) ==
  U16(ver) \o U16(count) \o U16(storage)
Pack_name_record(nameId, len, off) ==
  U16(3) \o U16(1) \o U16(1033) \o U16(nameId) \o U16(len) \o U16(off)

\* the name records of a list of entries [nameId, str], strings stored in order
RECURSIVE NameRecords(_, _)
NameRecords(entries, off) ==
  IF entries = <<>> THEN <<>>
  ELSE Pack_name_record(entries[1].nameId, Len(entries[1].str), off)
         \o NameRecords(Tail(entries), off + Len(entries[1].str))

RECURSIVE NameStrings(_)
NameStrings(entries) ==
  IF entries = <<>> THEN <<>> ELSE entries[1].str \o NameStrings(Tail(entries))

NameTable(entries) ==
  Pack_name_header(0, Len(entries), SIZE_name_header + SIZE_name_record * Len(entries))
    \o NameRecords(entries, 0) \o NameStrings(entries)

TAG_glyf == <<103, 108, 121, 102>>
GlyfData == <<9, 8, 7, 6>>

\* A font: header, directory, then the name table, then the glyf data.
\*   layout  which records the directory holds and in which order
\*   span    what the glyf record says of its table: "fit" the 4 bytes that
\*           are there, "past" 40 bytes from there, "block" 1024 bytes from 0
Font(ver, layout, entries, span) ==
  LET nrec == IF layout \in {"name", "glyf"} THEN 1 ELSE 2
      dir == SIZE_otf_descriptor + SIZE_table_record * nrec
      nt == IF layout = "glyf" THEN <<>> ELSE NameTable(entries)
      goff == dir + Len(nt)
      nameRec == Pack_table_record(TAG_name, 0, dir, Len(nt))
      glyfRec == IF span = "fit" THEN Pack_table_record(TAG_glyf, 0, goff, 4)
                 ELSE IF span = "past" THEN Pack_table_record(TAG_glyf, 0, goff, 40)
                 ELSE Pack_table_record(TAG_glyf, 0, 0, SHA_BLOCK)
      recs == IF layout = "name" THEN nameRec
              ELSE IF layout = "glyf" THEN glyfRec
              ELSE IF layout = "name+glyf" THEN nameRec \o glyfRec
              ELSE glyfRec \o nameRec
  IN Pack_otf_descriptor(ver, nrec, 8 * nrec, 0, 8 * nrec) \o recs \o nt
       \o (IF layout = "name" THEN <<>> ELSE GlyfData)

Entry(id, s) == [nameId |-> id, str |-> s]
NameEntries ==
  { Entry(1, <<69, 120>>),            \* family 'Ex'
    Entry(1, <<90, 92, 58, 47>>),     \* family 'Z\:/'
    Entry(2, <<66, 100>>),            \* subfamily 'Bd'
    Entry(2, <<81, 63>>),             \* subfamily 'Q?'
    Entry(4, <<195, 169>>),           \* full name, U+00E9 in two bytes
    Entry(3, <<255>>) }               \* identifier, not UTF-8

SeqsUpTo(S, len) == UNION {[1..m -> S] : m \in 0..len}

NameLists == SeqsUpTo(NameEntries, MaxNameRecs)

Versions == {SIG_ttf_0100, SIG_otf_otto}
Prefixes == {<<>>, <<7, 7, 7, 7, 7>>}
GoodFont == Font(SIG_ttf_0100, "name", <<Entry(1, <<69, 120>>), Entry(2, <<66, 100>>)>>, "fit")

\* raw streams for the scan
ScanAlphabet == {0, 1, 79, 84}
RawStreams == SeqsUpTo(ScanAlphabet, MaxStreamLen)

\* headers alone, or followed by zero bytes where table records would be
HeaderFiles ==
  { pre \o Pack_otf_descriptor(SIG_otf_otto, nT, sR, eS, rS) \o [x \in 1..tail |-> 0] :
      pre \in {<<>>, <<7, 7, 7>>}, nT \in {0, 1, 3, 4097},
      sR \in {0, 8, 32, 65535}, eS \in {0, 65535}, rS \in {0, 8, 16, 17, 20, 65520},
      tail \in {0, 48} }
    \cup {<<7>> \o SIG_otf_otto \o <<0, 1, 0, 8, 0, 0, 0>>}

\* fonts with every generated name table
NamedFonts ==
  { pre \o Font(ver, "name", names, "fit") :
      pre \in Prefixes, ver \in Versions, names \in NameLists }

\* fonts in every layout, whole or cut short, alone or after another font
LayoutFonts ==
  { LET f == pre \o Font(SIG_ttf_0100, layout, names, span)
    IN SubSeq(f, 1, Len(f) - cut) :
      pre \in {<<>>, <<1, 0, 0>> \o [x \in 1..9 |-> 7], GoodFont},
      layout \in {"name", "glyf", "name+glyf", "glyf+name"},
      names \in {<<Entry(1, <<69, 120>>), Entry(2, <<66, 100>>)>>, <<Entry(4, <<195, 169>>)>>},
      span \in {"fit", "past", "block"},
      cut \in {0, 1, 9, 26, 40} }

TypeInit ==
  /\ pc = "scan"
  /\ err = ""
  /\ fp = 0
  /\ buf = [x \in 1..(BUF_SIZE + BUF_PAD) |-> 0]
  /\ chunk = 0
  /\ chunk_offset = -BUF_PAD
  /\ offsets = <<>>
  /\ n = 0
  /\ base_offset = 0
  /\ sfnt = NoSfnt
  /\ i = 0
  /\ record = NoRecord
  /\ total_length = 0
  /\ has_name = FALSE
  /\ has_subfamily = FALSE
  /\ filename = <<>>
  /\ p0 = 0
  /\ name_record_header = NoNameHeader
  /\ name_idx = 0
  /\ to_save = <<>>
  /\ saved = 0
  /\ exports = <<>>

Init ==
  /\ \/ /\ file \in RawStreams
        /\ BUF_SIZE \in {3, 4, 5, BigBuf}
        /\ SAVE_INVALID = FALSE
     \/ /\ file \in HeaderFiles
        /\ BUF_SIZE \in {4, BigBuf}
        /\ SAVE_INVALID \in BOOLEAN
     \/ /\ file \in NamedFonts
        /\ BUF_SIZE = BigBuf
        /\ SAVE_INVALID \in BOOLEAN
     \/ /\ file \in LayoutFonts
        /\ BUF_SIZE \in {4, BigBuf}
        /\ SAVE_INVALID \in BOOLEAN
  /\ TypeInit

Spec == Init /\ [][Next]_vars

(***************************************************************************)
(* What the specification says, read off the file itself.                  *)
(***************************************************************************)
SetMax(S) == CHOOSE m \in S : \A x \in S : x <= m

Field(pos, len) == BigEndian(SubSeq(file, pos + 1, pos + len))

\* the positions of the file where four bytes are a carve signature, ascending
SignatureOffsets ==
  LET starts == [j \in 1..Max(Len(file) - 3, 0) |-> j - 1]
  IN SelectSeq(starts, LAMBDA o : SubSeq(file, o + 1, o + 4) \in CarveSignatures)

ScanComplete == pc \notin {"scan"} /\ err # "IndexError"

\* the header conditions of the data model, for the header at base
Acceptable(base) ==
  /\ base >= 0
  /\ base + 12 <= Len(file)
  /\ LET numTables == Field(base + 4, 2)
         searchRange == Field(base + 6, 2)
         rangeShift == Field(base + 10, 2)
     IN /\ numTables > 0
        /\ searchRange > 0
        /\ rangeShift > 0
        /\ rangeShift = numTables * 16 - searchRange

\* the table records of the font at base
DirectoryAt(base) ==
  [k \in 1..Field(base + 4, 2) |->
     [tag    |-> SubSeq(file, base + 16 * k - 3, base + 16 * k),
      offset |-> Field(base + 16 * k + 4, 4),
      length |-> Field(base + 16 * k + 8, 4)]]

\* the smallest span that covers every table of the font at base
DirectorySpan(base) ==
  SetMax({DirectoryAt(base)[k].offset + DirectoryAt(base)[k].length :
            k \in DOMAIN DirectoryAt(base)})

\* the name records of the font at base, in record-array order, each with
\* its string bytes; none when the font has no name table
NameEntriesAt(base) ==
  LET dir == DirectoryAt(base)
      ks == {k \in DOMAIN dir : dir[k].tag = TAG_name}
  IN IF ks = {} THEN <<>>
     ELSE LET tab == base + dir[CHOOSE k \in ks : \A m \in ks : k <= m].offset
              storage == tab + Field(tab + 4, 2)
          IN [j \in 1..Field(tab + 2, 2) |->
                LET rec == tab + 6 + 12 * (j - 1)
                IN [nameId |-> Field(rec + 6, 2),
                    str    |-> Read(storage + Field(rec + 10, 2), Field(rec + 8, 2))]]

HasNameId(entries, id) == \E j \in DOMAIN entries : entries[j].nameId = id

FirstWithId(entries, id) ==
  entries[CHOOSE j \in DOMAIN entries :
            /\ entries[j].nameId = id
            /\ \A m \in DOMAIN entries : entries[m].nameId = id => j <= m]

\* family, then ' - ' and subfamily when there is one, each from the first
\* record of its id
StemOfFirstRecords(entries) ==
  Utf8Decode(FirstWithId(entries, 1).str)
    \o (IF HasNameId(entries, 2)
        THEN STR_sep \o Utf8Decode(FirstWithId(entries, 2).str) ELSE <<>>)

\* the characters the specification lists: < > : " / \ | ? * and NUL
ListedPathChars == {60, 62, 58, 34, 47, 92, 124, 63, 42, 0}

\* the step of PlanTarget
Planning == pc = "records" /\ pc' = "candidates"

(***************************************************************************)
(* The claims.                                                             *)
(***************************************************************************)

\* C1: once the scan is over, the candidate offsets are exactly the
\* positions of the file where four bytes are a carve signature, in
\* ascending order, whatever the chunk size.  Offsets below 0 are the
\* subject of C6 and are left out here: what is stated is that the offsets
\* from 0 on are exactly those positions.
C1_OffsetsAreTheSignaturePositions ==
  ScanComplete => SelectSeq(offsets, LAMBDA o : o >= 0) = SignatureOffsets

\* C2: no run ends with the error of a read past the end of the file
\* (struct.error from read_unpack): such a candidate is dropped and the run
\* goes on.
C2_ShortReadNeverAborts ==
  err # "struct.error"

\* C3: no run ends with a decoding error: a name string that is not UTF-8
\* is omitted and the run goes on.
C3_BadUtf8NeverAborts ==
  err # "UnicodeDecodeError"

\* C4: every planned target has the length of the smallest span covering
\* all tables of its font, and the file written for it holds exactly that
\* many bytes, the bytes of the input from its base offset on.
C4_ExportIsTheWholeSpan ==
  \A j \in 1..Len(exports) :
    LET t == to_save[j]
    IN /\ t.length = DirectorySpan(t.offset)
       /\ Len(exports[j].data) = t.length
       /\ exports[j].data = SubSeq(file, t.offset + 1, t.offset + t.length)

\* C5: the name of a target whose font has a family record is the string of
\* the first nameId 1 record, followed by ' - ' and the string of the first
\* nameId 2 record whenever there is a nameId 2 record, in whatever order
\* the records come (then the extension, then sanitizing).
C5_StemFromFirstRecords ==
  \A j \in 1..Len(to_save) :
    LET t == to_save[j]
        entries == NameEntriesAt(t.offset)
    IN HasNameId(entries, 1) =>
         t.filename = Sanitize(StemOfFirstRecords(entries)
                                 \o Extension(SubSeq(file, t.offset + 1, t.offset + 4)))

\* C6: no candidate offset is below 0, and a signature in the first four
\* bytes of the file gives the candidate offset 0.
C6_FirstByteAndNoNegativeOffset ==
  ScanComplete =>
    /\ \A j \in 1..Len(offsets) : offsets[j] >= 0
    /\ (Len(file) >= 4 /\ SubSeq(file, 1, 4) \in CarveSignatures)
         => \E j \in 1..Len(offsets) : offsets[j] = 0

\* C7: the filename recorded for a target is the unsanitized name with every
\* occurrence of < > : " / \ | ? * and NUL removed and every other character
\* kept in order.
C7_SanitizeRemovesTheListedChars ==
  [][(Planning /\ Len(to_save') > Len(to_save)) =>
       filename' = SelectSeq(TargetStem \o Extension(sfnt.sfntVersion),
                             LAMBDA ch : ch \notin ListedPathChars)]_vars

\* C8: for a valid candidate with no family string, nothing is recorded when
\* SAVE_INVALID is off, and when it is on exactly one target is recorded,
\* named by the digest of all the bytes base .. base + totalLength - 1.
C8_UnidentifiedNamedByHashOfWholeRange ==
  [][(Planning /\ ~has_name) =>
       to_save' = IF SAVE_INVALID
                  THEN Append(to_save,
                         [filename |-> HexDigest(Read(base_offset, total_length))
                                         \o Extension(sfnt.sfntVersion),
                          offset   |-> base_offset,
                          length   |-> total_length])
                  ELSE to_save]_vars

\* C9: a candidate is accepted, that is its table records are read, exactly
\* when its 12 header bytes lie in the file and the header has
\* numTables > 0, searchRange > 0, rangeShift > 0 and
\* rangeShift = numTables*16 - searchRange.
C9_AcceptedIffHeaderConsistent ==
  [][(pc = "candidates" /\ n < Len(offsets)) =>
       ((pc' = "records") <=> Acceptable(offsets[n + 1]))]_vars

\* C9 happens: the header numTables=3, searchRange=32, rangeShift=16 is
\* accepted after the scan found it.
C9_Witness ==
  /\ pc = "records"
  /\ i = 0
  /\ sfnt.numTables = 3 /\ sfnt.searchRange = 32 /\ sfnt.rangeShift = 16

\* C10: decoding a name table preserves the cursor: before every name record
\* the cursor is at that record, and the saved position is the end of the
\* 'name' table record; so the i-th table record is read at
\* base + 12 + 16*i and is the 16 bytes there.
C10_NameTablePreservesCursor ==
  /\ pc = "records" =>
       /\ fp = base_offset + 12 + 16 * i
       /\ i > 0 => record = Unpack_table_record(Read(base_offset + 12 + 16 * (i - 1), 16))
  /\ pc = "names" =>
       /\ fp = base_offset + record.offset + 6 + 12 * name_idx
       /\ p0 = base_offset + 12 + 16 * (i + 1)
       /\ record = Unpack_table_record(Read(base_offset + 12 + 16 * i, 16))

\* C10 happens: a font not at the start of the file whose name table, with
\* two records decoded, is the first of two tables, and the second table
\* record has been read.
C10_Witness ==
  /\ pc = "records"
  /\ i = 2
  /\ base_offset > 0
  /\ record.tag = TAG_glyf
  /\ name_record_header.count = 2
  /\ has_subfamily
=============================================================================
